---------------------------- MODULE Spec2Model ----------------------------
(***************************************************************************)
(* Model of proxy-server.py: CORSProxyHandler (a SimpleHTTPRequestHandler  *)
(* that adds CORS headers and relays two API routes to bitjita.com) and    *)
(* run_server (an HTTPServer serving one request at a time).               *)
(*                                                                         *)
(* Strings the code inspects (request paths) are sequences of characters;  *)
(* request bodies are sequences of JSON tokens; upstream bodies are        *)
(* sequences of bytes.                                                     *)
(***************************************************************************)
EXTENDS Integers, Sequences, FiniteSets, TLC

(***************************************************************************)
(* Bounds of the model.                                                    *)
(***************************************************************************)
\* A request path is the concatenation of at most MaxPathParts fragments.
MaxPathParts == 2

(***************************************************************************)
(* Python str operations, on sequences of characters.                      *)
(***************************************************************************)
\* str.startswith(prefix)
startswith(s, prefix) ==
    /\ Len(prefix) <= Len(s)
    /\ SubSeq(s, 1, Len(prefix)) = prefix

\* str.replace(old, new) for non-empty old: every non-overlapping occurrence,
\* scanning left to right.
RECURSIVE replace(_, _, _)
replace(s, old, new) ==
    IF s = <<>> THEN <<>>
    ELSE IF startswith(s, old)
         THEN new \o replace(SubSeq(s, Len(old) + 1, Len(s)), old, new)
         ELSE <<Head(s)>> \o replace(Tail(s), old, new)

\* Concatenation of a sequence of sequences.
RECURSIVE Concat(_)
Concat(ss) == IF ss = <<>> THEN <<>> ELSE Head(ss) \o Concat(Tail(ss))

\* The literals of the source.
ItemPrefix == <<"/","a","p","i","/","m","a","r","k","e","t","/","i","t","e","m","/">>
BulkPath == <<"/","a","p","i","/","m","a","r","k","e","t","/",
              "p","r","i","c","e","s","/","b","u","l","k">>
UpstreamBase == <<"h","t","t","p","s",":","/","/","b","i","t","j","i","t","a",".","c","o","m">>
BulkUrl == UpstreamBase \o BulkPath
ItemUrl(item_id) == UpstreamBase \o ItemPrefix \o item_id

(***************************************************************************)
(* json.loads / json.dumps over token sequences.  A JSON value is a record *)
(* [k, a, keys, items]: k is the kind, a the atom's token, keys the keys   *)
(* of an object in insertion order, items the members.                     *)
(***************************************************************************)
StrToks == {"\"itemIds\"", "\"1\"", "\"2\""}
NumToks == {"7"}
JNull == [k |-> "null", a |-> "null", keys |-> <<>>, items |-> <<>>]
JNum(t) == [k |-> "num", a |-> t, keys |-> <<>>, items |-> <<>>]
JStr(t) == [k |-> "str", a |-> t, keys |-> <<>>, items |-> <<>>]
JArr(vs) == [k |-> "arr", a |-> "", keys |-> <<>>, items |-> vs]
JObj(ks, vs) == [k |-> "obj", a |-> "", keys |-> ks, items |-> vs]

ParseFail == [ok |-> FALSE, val |-> JNull, next |-> 0]
ParseOk(v, n) == [ok |-> TRUE, val |-> v, next |-> n]

\* Index of the first token at or after i that is not whitespace.
RECURSIVE SkipWs(_, _)
SkipWs(t, i) == IF i <= Len(t) /\ t[i] = " " THEN SkipWs(t, i + 1) ELSE i

\* dict[key] = v: a repeated key keeps its place and takes the later value.
DictPut(ks, vs, key, v) ==
    IF \E i \in 1..Len(ks) : ks[i] = key
    THEN [ks |-> ks,
          vs |-> [i \in 1..Len(vs) |-> IF ks[i] = key THEN v ELSE vs[i]]]
    ELSE [ks |-> Append(ks, key), vs |-> Append(vs, v)]

RECURSIVE ParseValue(_, _), ParseElems(_, _, _), ParseMembers(_, _, _, _)
\* One JSON value starting at token i (after whitespace).
ParseValue(t, i) ==
    LET j == SkipWs(t, i) IN
    IF j > Len(t) THEN ParseFail
    ELSE IF t[j] = "null" THEN ParseOk(JNull, j + 1)
    ELSE IF t[j] \in NumToks THEN ParseOk(JNum(t[j]), j + 1)
    ELSE IF t[j] \in StrToks THEN ParseOk(JStr(t[j]), j + 1)
    ELSE IF t[j] = "["
         THEN LET n == SkipWs(t, j + 1) IN
              IF n <= Len(t) /\ t[n] = "]" THEN ParseOk(JArr(<<>>), n + 1)
              ELSE ParseElems(t, n, <<>>)
    ELSE IF t[j] = "{"
         THEN LET n == SkipWs(t, j + 1) IN
              IF n <= Len(t) /\ t[n] = "}" THEN ParseOk(JObj(<<>>, <<>>), n + 1)
              ELSE ParseMembers(t, n, <<>>, <<>>)
    ELSE ParseFail

\* The elements of an array, the opening bracket consumed.
ParseElems(t, i, acc) ==
    LET r == ParseValue(t, i) IN
    IF ~r.ok THEN ParseFail
    ELSE LET n == SkipWs(t, r.next) IN
         IF n > Len(t) THEN ParseFail
         ELSE IF t[n] = "," THEN ParseElems(t, n + 1, Append(acc, r.val))
         ELSE IF t[n] = "]" THEN ParseOk(JArr(Append(acc, r.val)), n + 1)
         ELSE ParseFail

\* The members of an object, the opening brace consumed.
ParseMembers(t, i, ks, vs) ==
    LET j == SkipWs(t, i) IN
    IF j > Len(t) \/ ~(t[j] \in StrToks) THEN ParseFail
    ELSE LET c == SkipWs(t, j + 1) IN
         IF c > Len(t) \/ t[c] # ":" THEN ParseFail
         ELSE LET r == ParseValue(t, c + 1) IN
              IF ~r.ok THEN ParseFail
              ELSE LET n == SkipWs(t, r.next)
                       d == DictPut(ks, vs, t[j], r.val) IN
                   IF n > Len(t) THEN ParseFail
                   ELSE IF t[n] = "," THEN ParseMembers(t, n + 1, d.ks, d.vs)
                   ELSE IF t[n] = "}" THEN ParseOk(JObj(d.ks, d.vs), n + 1)
                   ELSE ParseFail

\* json.loads: one value, then nothing but whitespace.
json_loads(t) ==
    LET r == ParseValue(t, 1) IN
    IF r.ok /\ SkipWs(t, r.next) > Len(t) THEN r ELSE ParseFail

\* json.dumps with the default separators (", " and ": ").
RECURSIVE json_dumps(_), DumpItems(_, _, _)
json_dumps(v) ==
    IF v.k = "arr" THEN <<"[">> \o DumpItems(<<>>, v.items, 1) \o <<"]">>
    ELSE IF v.k = "obj" THEN <<"{">> \o DumpItems(v.keys, v.items, 1) \o <<"}">>
    ELSE <<v.a>>
DumpItems(ks, vs, i) ==
    IF i > Len(vs) THEN <<>>
    ELSE (IF i > 1 THEN <<",", " ">> ELSE <<>>)
         \o (IF ks # <<>> THEN <<ks[i], ":", " ">> ELSE <<>>)
         \o json_dumps(vs[i])
         \o DumpItems(ks, vs, i + 1)

(***************************************************************************)
(* bytes.decode('utf-8') / str.encode() over sequences of byte values; a   *)
(* decoded string is its sequence of code points.                          *)
(***************************************************************************)
IsCont(b) == b >= 128 /\ b <= 191

RECURSIVE utf8_decode(_)
utf8_decode(b) ==
    IF b = <<>> THEN [ok |-> TRUE, s |-> <<>>]
    ELSE LET b1 == b[1]
             n == IF b1 < 128 THEN 1
                  ELSE IF b1 >= 194 /\ b1 <= 223 THEN 2
                  ELSE IF b1 >= 224 /\ b1 <= 239 THEN 3
                  ELSE IF b1 >= 240 /\ b1 <= 244 THEN 4
                  ELSE 0
             wellFormed ==
                 /\ n > 0
                 /\ Len(b) >= n
                 /\ \A i \in 2..n : IsCont(b[i])
                 /\ (b1 = 224 => b[2] >= 160)
                 /\ (b1 = 237 => b[2] <= 159)
                 /\ (b1 = 240 => b[2] >= 144)
                 /\ (b1 = 244 => b[2] <= 143)
         IN IF ~wellFormed THEN [ok |-> FALSE, s |-> <<>>]
            ELSE LET cp == IF n = 1 THEN b1
                           ELSE IF n = 2 THEN (b1 - 192) * 64 + (b[2] - 128)
                           ELSE IF n = 3
                                THEN (b1 - 224) * 4096 + (b[2] - 128) * 64 + (b[3] - 128)
                                ELSE (b1 - 240) * 262144 + (b[2] - 128) * 4096
                                     + (b[3] - 128) * 64 + (b[4] - 128)
                     rest == utf8_decode(SubSeq(b, n + 1, Len(b)))
                 IN IF rest.ok THEN [ok |-> TRUE, s |-> <<cp>> \o rest.s]
                    ELSE rest

RECURSIVE utf8_encode(_)
utf8_encode(s) ==
    IF s = <<>> THEN <<>>
    ELSE LET cp == s[1]
             enc == IF cp < 128 THEN <<cp>>
                    ELSE IF cp < 2048 THEN <<192 + (cp \div 64), 128 + (cp % 64)>>
                    ELSE IF cp < 65536
                         THEN <<224 + (cp \div 4096), 128 + ((cp \div 64) % 64), 128 + (cp % 64)>>
                         ELSE <<240 + (cp \div 262144), 128 + ((cp \div 4096) % 64),
                                128 + ((cp \div 64) % 64), 128 + (cp % 64)>>
         IN enc \o utf8_encode(Tail(s))

(***************************************************************************)
(* What a handler writes.  A line of output is a record; the header buffer *)
(* and the bytes on the client's connection are sequences of lines.        *)
(***************************************************************************)
Line(k, code, name, value, bytes) ==
    [k |-> k, code |-> code, name |-> name, value |-> value, bytes |-> bytes]
StatusLine(code) == Line("status", code, "", "", <<>>)
HeaderLine(name, value) == Line("header", 0, name, value, <<>>)
EndOfHeaders == Line("end", 0, "", "", <<>>)
\* A body given as raw bytes, and a body given as text the handler built.
RawBody(bytes) == Line("body", 0, "", "", bytes)
TextBody(text) == Line("body", 0, "", text, <<>>)

\* json.dumps({'error': msg})
json_error(msg) == "{\"error\": \"" \o msg \o "\"}"

NoExc == [type |-> "", msg |-> ""]

\* A handler instance: the header buffer, what reached the client, the number
\* of socket writes attempted and of those that failed, the upstream requests
\* issued (each with the upstream's answer), and the exception in flight
\* (NoExc when none).
NewHandler ==
    [buf |-> <<>>, wire |-> <<>>, nw |-> 0, failed |-> 0, ups |-> <<>>, exc |-> NoExc]

Raise(h, type, msg) ==
    IF h.exc # NoExc THEN h ELSE [h EXCEPT !.exc = [type |-> type, msg |-> msg]]

\* Entering an except clause: the exception is caught.
Caught(h) == [h EXCEPT !.exc = NoExc]

\* One write on the client's socket; wf is the set of writes (by number) that
\* fail.  A failed write delivers nothing and raises; whether a later write
\* on the same socket goes through is the operating system's business, so
\* every write fails or succeeds on its own.
SocketWrite(h, wf, lines) ==
    IF h.exc # NoExc THEN h
    ELSE IF (h.nw + 1) \in wf
         THEN Raise([h EXCEPT !.nw = @ + 1, !.failed = @ + 1],
                    "BrokenPipeError", "[Errno 32] Broken pipe")
         ELSE [h EXCEPT !.nw = @ + 1, !.wire = @ \o lines]

\* BaseHTTPRequestHandler.send_response: the status line and the Server and
\* Date headers go to the header buffer.
send_response(h, code) ==
    IF h.exc # NoExc THEN h
    ELSE [h EXCEPT !.buf = @ \o <<StatusLine(code),
                                  HeaderLine("Server", "SimpleHTTP"),
                                  HeaderLine("Date", "now")>>]

send_header(h, name, value) ==
    IF h.exc # NoExc THEN h
    ELSE [h EXCEPT !.buf = Append(@, HeaderLine(name, value))]

\* BaseHTTPRequestHandler.end_headers and flush_headers: the buffer is written
\* in one write and cleared only when the write returned.
base_end_headers(h, wf) ==
    IF h.exc # NoExc THEN h
    ELSE LET w == SocketWrite([h EXCEPT !.buf = Append(@, EndOfHeaders)], wf,
                              Append(h.buf, EndOfHeaders))
         IN IF w.exc = NoExc THEN [w EXCEPT !.buf = <<>>] ELSE w

CORSHeaders ==
    <<HeaderLine("Access-Control-Allow-Origin", "*"),
      HeaderLine("Access-Control-Allow-Methods", "GET, POST, OPTIONS"),
      HeaderLine("Access-Control-Allow-Headers", "Content-Type")>>

\* end_headers as it would be without lines 16-18.
end_headers_plain(h, wf) == base_end_headers(h, wf)

\* CORSProxyHandler.end_headers
end_headers(h, wf) ==
    base_end_headers(
        send_header(
            send_header(
                send_header(h, "Access-Control-Allow-Origin", "*"),
                "Access-Control-Allow-Methods", "GET, POST, OPTIONS"),
            "Access-Control-Allow-Headers", "Content-Type"),
        wf)

\* self.wfile.write(body)
wfile_write(h, wf, body) == SocketWrite(h, wf, <<body>>)

\* do_OPTIONS answering "204 No Content" instead of 200.
do_OPTIONS_204(h, wf) == end_headers(send_response(h, 204), wf)

\* CORSProxyHandler.do_OPTIONS
do_OPTIONS(h, wf) == end_headers(send_response(h, 200), wf)

(***************************************************************************)
(* The upstream (bitjita.com) as urllib sees it.  An outcome of urlopen is *)
(* a record [kind, code, hasfp, body]:                                     *)
(*   "ok"        the reply, status 200, with its body                      *)
(*   "httperror" urllib.error.HTTPError with e.code and, when e.fp is set, *)
(*               the error body                                            *)
(*   "urlerror"  urllib.error.URLError (the upstream is unreachable)       *)
(*   "readfail"  the reply arrived but response.read() raised              *)
(***************************************************************************)
Outcome(kind, code, hasfp, body) ==
    [kind |-> kind, code |-> code, hasfp |-> hasfp, body |-> body]

\* urllib.request.urlopen(req): the request is issued (recorded with the
\* number of socket writes made to the client before it) and the upstream's
\* outcome decides whether it returns or raises.
urlopen(h, method, url, data, headers, up) ==
    IF h.exc # NoExc THEN h
    ELSE LET issued == [h EXCEPT !.ups = Append(@, [method |-> method, url |-> url,
                                                    data |-> data, headers |-> headers,
                                                    at |-> h.nw, up |-> up])]
         IN IF up.kind = "httperror"
            THEN Raise(issued, "HTTPError", "HTTP Error")
            ELSE IF up.kind = "urlerror"
            THEN Raise(issued, "URLError", "<urlopen error [Errno 111] Connection refused>")
            ELSE issued

\* response.read() inside the with block
response_read(h, up) ==
    IF h.exc # NoExc THEN h
    ELSE IF up.kind = "readfail"
         THEN Raise(h, "IncompleteRead", "IncompleteRead(0 bytes read)")
         ELSE h

(***************************************************************************)
(* Pieces of do_POST.                                                      *)
(***************************************************************************)
\* self.headers.get(name, default): [present, value]
headers_get(headers, name) ==
    IF \E p \in headers : p[1] = name
    THEN [present |-> TRUE, value |-> (CHOOSE p \in headers : p[1] = name)[2]]
    ELSE [present |-> FALSE, value |-> ""]

\* The numbers whose decimal numerals the model's requests may carry.
Numerals == 0..20

\* int(text) for a header value: decimal numerals convert, anything else
\* raises ValueError.
int(text) ==
    IF \E n \in Numerals : ToString(n) = text
    THEN [ok |-> TRUE, v |-> CHOOSE n \in Numerals : ToString(n) = text]
    ELSE [ok |-> FALSE, v |-> 0]

\* self.rfile.read(n): the first n tokens of the body sent.
rfile_read(body, n) == SubSeq(body, 1, IF n < Len(body) THEN n ELSE Len(body))

\* A token standing for bytes that are not UTF-8.
BadUtf8 == "\\xff"

\* post_data.decode('utf-8') at the granularity of tokens.
body_decode(post_data) ==
    IF \E i \in 1..Len(post_data) : post_data[i] = BadUtf8
    THEN [ok |-> FALSE, s |-> <<>>]
    ELSE [ok |-> TRUE, s |-> post_data]

\* request_body.get("itemIds", []) of a dict
dict_get(d, key, default) ==
    IF \E i \in 1..Len(d.keys) : d.keys[i] = key
    THEN d.items[CHOOSE i \in 1..Len(d.keys) : d.keys[i] = key]
    ELSE default

\* Whether len(v) is defined.
has_len(v) == v.k \in {"arr", "obj", "str"}

JsonContentType == {<<"Content-Type", "application/json">>}

\* Lines 30-55: the try block of do_POST.
PostTry(h, req, up, wf) ==
    LET clh == headers_get(req.headers, "Content-Length")
        content_length == IF clh.present THEN int(clh.value)
                          ELSE [ok |-> TRUE, v |-> 0]
    IN
    IF ~content_length.ok
    THEN Raise(h, "ValueError", "invalid literal for int() with base 10")
    ELSE
    LET post_data == rfile_read(req.body, content_length.v)
        text == body_decode(post_data)
    IN
    IF ~text.ok
    THEN Raise(h, "UnicodeDecodeError", "'utf-8' codec can't decode byte 0xff")
    ELSE
    LET parsed == json_loads(text.s) IN
    IF ~parsed.ok
    THEN Raise(h, "JSONDecodeError", "Expecting value")
    ELSE
    LET request_body == parsed.val IN
    IF request_body.k # "obj"
    THEN Raise(h, "AttributeError", "object has no attribute 'get'")
    ELSE IF ~has_len(dict_get(request_body, "\"itemIds\"", JArr(<<>>)))
    THEN Raise(h, "TypeError", "object has no len()")
    ELSE
    LET sent == response_read(
                    urlopen(h, "POST", BulkUrl, json_dumps(request_body),
                            JsonContentType, up),
                    up)
    IN wfile_write(
           end_headers(
               send_header(send_response(sent, 200), "Content-Type", "application/json"),
               wf),
           wf, RawBody(up.body))

\* Lines 57-70: except urllib.error.HTTPError of do_POST.
PostHTTPError(h, up, wf) ==
    LET error_body == IF up.hasfp THEN utf8_decode(up.body)
                      ELSE [ok |-> TRUE, s |-> <<>>]
    IN
    IF ~error_body.ok
    THEN Raise(h, "UnicodeDecodeError", "'utf-8' codec can't decode byte")
    ELSE
    LET hdrs == end_headers(
                    send_header(send_response(h, up.code),
                                "Content-Type", "application/json"),
                    wf)
    IN IF error_body.s # <<>>
       THEN wfile_write(hdrs, wf, RawBody(utf8_encode(error_body.s)))
       ELSE wfile_write(hdrs, wf,
                        TextBody(json_error("API returned status " \o ToString(up.code))))

\* Lines 72-79 and 116-123: except Exception of do_POST and of do_GET.
OnException(h, e, wf) ==
    wfile_write(
        end_headers(
            send_header(send_response(h, 500), "Content-Type", "application/json"),
            wf),
        wf, TextBody(json_error(e.msg)))

\* Whether do_POST takes the relay branch.
IsBulkRoute(path) == startswith(path, BulkPath)

\* CORSProxyHandler.do_POST
do_POST(h, req, up, wf) ==
    IF IsBulkRoute(req.path)
    THEN LET t == PostTry(h, req, up, wf) IN
         IF t.exc = NoExc THEN t
         ELSE IF t.exc.type = "HTTPError" THEN PostHTTPError(Caught(t), up, wf)
         ELSE OnException(Caught(t), t.exc, wf)
    ELSE wfile_write(
             end_headers(
                 send_header(send_response(h, 405), "Content-Type", "application/json"),
                 wf),
             wf, TextBody(json_error("Method not allowed")))

(***************************************************************************)
(* Pieces of do_GET.                                                       *)
(***************************************************************************)
\* Whether do_GET takes the relay branch.
IsItemRoute(path) == startswith(path, ItemPrefix)

\* Line 93: item_id = self.path.replace('/api/market/item/', '')
item_id_of(path) == replace(path, ItemPrefix, <<>>)

\* Lines 92-106: the try block of do_GET.
GetTry(h, req, up, wf) ==
    LET item_id == item_id_of(req.path)
        sent == response_read(urlopen(h, "GET", ItemUrl(item_id), <<>>, {}, up), up)
    IN wfile_write(
           end_headers(
               send_header(send_response(sent, 200), "Content-Type", "application/json"),
               wf),
           wf, RawBody(up.body))

\* The body do_GET would send if it forwarded the upstream's error body the
\* way do_POST does.
GetErrorBody_forwarding(up) ==
    IF up.hasfp /\ up.body # <<>>
    THEN RawBody(up.body)
    ELSE TextBody(json_error("API returned status " \o ToString(up.code)))

\* Lines 113-114: the body do_GET sends for an upstream HTTP error.
GetErrorBody(up) == TextBody(json_error("API returned status " \o ToString(up.code)))

\* Lines 108-114: except urllib.error.HTTPError of do_GET.
GetHTTPError(h, up, wf) ==
    wfile_write(
        end_headers(
            send_header(send_response(h, up.code), "Content-Type", "application/json"),
            wf),
        wf, GetErrorBody(up))

\* SimpleHTTPRequestHandler.send_error, which ends its headers through
\* self.end_headers.
send_error(h, code, wf) ==
    wfile_write(
        end_headers(
            send_header(
                send_header(
                    send_header(send_response(h, code), "Connection", "close"),
                    "Content-Type", "text/html;charset=utf-8"),
                "Content-Length", "len"),
            wf),
        wf, TextBody("<html>error</html>"))

\* Line 126: super().do_GET(), the static file server.  fs says what the path
\* names under the working directory: a file, nothing, or a directory given
\* without its trailing slash.
static_do_GET(h, fs, wf) ==
    IF fs = "file"
    THEN wfile_write(
             end_headers(
                 send_header(
                     send_header(
                         send_header(send_response(h, 200), "Content-type", "text/html"),
                         "Content-Length", "len"),
                     "Last-Modified", "mtime"),
                 wf),
             wf, RawBody(<<60, 62>>))
    ELSE IF fs = "dir"
    THEN end_headers(
             send_header(
                 send_header(send_response(h, 301), "Location", "path/"),
                 "Content-Length", "0"),
             wf)
    ELSE send_error(h, 404, wf)

\* CORSProxyHandler.do_GET
do_GET(h, req, up, fs, wf) ==
    IF IsItemRoute(req.path)
    THEN LET t == GetTry(h, req, up, wf) IN
         IF t.exc = NoExc THEN t
         ELSE IF t.exc.type = "HTTPError" THEN GetHTTPError(Caught(t), up, wf)
         ELSE OnException(Caught(t), t.exc, wf)
    ELSE static_do_GET(h, fs, wf)

(***************************************************************************)
(* The inputs: requests, upstream outcomes, file-system outcomes, failing  *)
(* socket writes.                                                          *)
(***************************************************************************)
PathFrags == {ItemPrefix, BulkPath, <<"1">>, <<"/", "x">>}
Paths == {Concat(fs) : fs \in UNION {[1..n -> PathFrags] : n \in 1..MaxPathParts}}

Bodies ==
    { <<"{", "\"itemIds\"", ":", " ", "[", "\"1\"", ",", "\"2\"", "]", "}">>,
      <<"{", "}">>,
      <<"{", "\"itemIds\"", ":", "7", "}">>,
      <<"[", "\"1\"", "]">>,
      <<"\"1\"">>,
      <<"7">>,
      <<"null">>,
      <<BadUtf8>>,
      <<>> }

\* The Content-Length headers sent with a body: none, one that is no number,
\* the body's length, one less (the last token is not read), or zero.
ContentLengthHeaders(body) ==
    {{}} \cup {{<<"Content-Length", "abc">>}}
         \cup {{<<"Content-Length", ToString(n)>>} :
                   n \in {0} \cup {m \in 0..Len(body) : m >= Len(body) - 1}}

Request(method, path, headers, body) ==
    [method |-> method, path |-> path, headers |-> headers, body |-> body]
NoRequest == Request("", <<>>, {}, <<>>)

Requests ==
    {Request(m, p, {}, <<>>) : m \in {"OPTIONS", "GET", "PUT"}, p \in Paths}
    \cup UNION {{Request("POST", p, hs, b) : p \in Paths, hs \in ContentLengthHeaders(b)}
                : b \in Bodies}

UpBodies == {<<>>, <<123, 125>>, <<195, 169>>, <<255>>}
ErrorCodes == {404, 503}
UpOutcomes ==
    {Outcome("ok", 200, TRUE, b) : b \in UpBodies}
    \cup {Outcome("httperror", c, TRUE, b) : c \in ErrorCodes, b \in UpBodies}
    \cup {Outcome("httperror", c, FALSE, <<>>) : c \in ErrorCodes}
    \cup {Outcome("urlerror", 0, FALSE, <<>>), Outcome("readfail", 200, TRUE, <<>>)}

FsOutcomes == {"file", "dir", "missing"}

\* The upstream and the file system matter only to a handler that reaches
\* them: urlopen is called on the two relay routes, the file server on the
\* other GET paths.
NotAsked == Outcome("none", 0, FALSE, <<>>)
UpOutcomesFor(req) ==
    IF \/ req.method = "POST" /\ IsBulkRoute(req.path)
       \/ req.method = "GET" /\ IsItemRoute(req.path)
    THEN UpOutcomes
    ELSE {NotAsked}
FsOutcomesFor(req) ==
    IF req.method = "GET" /\ ~IsItemRoute(req.path) THEN FsOutcomes ELSE {"none"}

\* A handler makes at most four socket writes; any of them may fail.
WriteFailures == SUBSET (1..4)

(***************************************************************************)
(* The server: run_server's HTTPServer handles one request at a time, each *)
(* with a new CORSProxyHandler.                                            *)
(***************************************************************************)
VARIABLES pc, listening, interrupted, request, h
vars == <<pc, listening, interrupted, request, h>>

\* Line 134 and serve_forever: the listener is up and waits for a request.
Init ==
    /\ pc = "accept"
    /\ listening = TRUE
    /\ interrupted = FALSE
    /\ request = NoRequest
    /\ h = NewHandler

\* serve_forever accepts a connection and constructs a handler for it, which
\* reads the request.
Accept(req) ==
    /\ pc = "accept"
    /\ listening
    /\ pc' = "handle"
    /\ request' = req
    /\ h' = NewHandler
    /\ UNCHANGED <<listening, interrupted>>

ServeOPTIONS ==
    /\ pc = "handle"
    /\ request.method = "OPTIONS"
    /\ \E wf \in WriteFailures : h' = do_OPTIONS(h, wf)
    /\ pc' = "handled"
    /\ UNCHANGED <<listening, interrupted, request>>

ServePOST ==
    /\ pc = "handle"
    /\ request.method = "POST"
    /\ \E up \in UpOutcomesFor(request), wf \in WriteFailures :
           h' = do_POST(h, request, up, wf)
    /\ pc' = "handled"
    /\ UNCHANGED <<listening, interrupted, request>>

ServeGET ==
    /\ pc = "handle"
    /\ request.method = "GET"
    /\ \E up \in UpOutcomesFor(request), fs \in FsOutcomesFor(request),
          wf \in WriteFailures :
           h' = do_GET(h, request, up, fs, wf)
    /\ pc' = "handled"
    /\ UNCHANGED <<listening, interrupted, request>>

\* handle_one_request finds no do_<method> and answers 501.
ServeUnsupported ==
    /\ pc = "handle"
    /\ request.method \notin {"OPTIONS", "POST", "GET"}
    /\ \E wf \in WriteFailures : h' = send_error(h, 501, wf)
    /\ pc' = "handled"
    /\ UNCHANGED <<listening, interrupted, request>>

\* A server that lets an exception which escaped the handler end serve_forever.
FinishRequest_propagating ==
    /\ pc = "handled"
    /\ IF h.exc # NoExc
       THEN /\ pc' = "stopped"
            /\ listening' = FALSE
            /\ UNCHANGED <<interrupted, request, h>>
       ELSE /\ pc' = "accept"
            /\ request' = NoRequest
            /\ h' = NewHandler
            /\ UNCHANGED <<listening, interrupted>>

\* The handler returned or raised: the server reports an exception that
\* escaped it, closes the connection and goes back to accepting.
FinishRequest ==
    /\ pc = "handled"
    /\ pc' = "accept"
    /\ request' = NoRequest
    /\ h' = NewHandler
    /\ UNCHANGED <<listening, interrupted>>

\* Lines 152-154: Ctrl+C ends serve_forever and the listener is shut down.
KeyboardInterrupt ==
    /\ listening
    /\ listening' = FALSE
    /\ interrupted' = TRUE
    /\ pc' = "stopped"
    /\ UNCHANGED <<request, h>>

Next ==
    \/ \E req \in Requests : Accept(req)
    \/ ServeOPTIONS
    \/ ServePOST
    \/ ServeGET
    \/ ServeUnsupported
    \/ FinishRequest
    \/ KeyboardInterrupt

Spec == Init /\ [][Next]_vars

(***************************************************************************)
(* Reading a handler's output.                                             *)
(***************************************************************************)
\* The status codes, and the bodies, that reached the client, in order.
RECURSIVE StatusCodes(_)
StatusCodes(w) ==
    IF w = <<>> THEN <<>>
    ELSE (IF Head(w).k = "status" THEN <<Head(w).code>> ELSE <<>>) \o StatusCodes(Tail(w))
BodiesSent(w) == SelectSeq(w, LAMBDA l : l.k = "body")

\* The header block that ends at line i starts at the last status line before i.
BlockStart(w, i) ==
    IF \E j \in 1..i : w[j].k = "status"
    THEN CHOOSE j \in 1..i : w[j].k = "status" /\ \A n \in (j + 1)..i : w[n].k # "status"
    ELSE 1
BlockHas(w, i, line) == \E j \in BlockStart(w, i)..i : w[j] = line

\* The request is on a relay route and its handler has run.
HandledItemGet == pc = "handled" /\ request.method = "GET" /\ IsItemRoute(request.path)
HandledBulkPost == pc = "handled" /\ request.method = "POST" /\ request.path = BulkPath

\* The upstream's answer to the request the handler issued.
Answer == h.ups[1].up
GenericError(c) == TextBody(json_error("API returned status " \o ToString(c)))

\* The body do_POST reads and whether it is valid JSON.
BodyRead(req) ==
    LET clh == headers_get(req.headers, "Content-Length") IN
    rfile_read(req.body, IF clh.present /\ int(clh.value).ok THEN int(clh.value).v ELSE 0)
ValidJsonRead(req) ==
    LET clh == headers_get(req.headers, "Content-Length") IN
    /\ clh.present => int(clh.value).ok
    /\ body_decode(BodyRead(req)).ok
    /\ json_loads(BodyRead(req)).ok

(***************************************************************************)
(* C1: every header block the server sends, whatever the method, path and  *)
(* outcome, carries the three CORS headers, and every status line sent is  *)
(* followed by such a block.                                               *)
(***************************************************************************)
C1_EveryResponseHasCORS ==
    /\ \A i \in 1..Len(h.wire) :
           h.wire[i].k = "end" =>
               \A n \in 1..Len(CORSHeaders) : BlockHas(h.wire, i, CORSHeaders[n])
    /\ \A j \in 1..Len(h.wire) :
           h.wire[j].k = "status" => \E i \in j..Len(h.wire) : h.wire[i].k = "end"

\* The file server's own not-found response has been sent.
C1_Witness ==
    /\ pc = "handled"
    /\ request.method = "GET"
    /\ ~IsItemRoute(request.path)
    /\ StatusCodes(h.wire) = <<404>>
    /\ BodiesSent(h.wire) # <<>>

(***************************************************************************)
(* C2 (as claimed): a GET to /api/market/item/X issues exactly one         *)
(* upstream GET, to the upstream base followed by /api/market/item/X with  *)
(* X unchanged.                                                            *)
(***************************************************************************)
C2_OneUpstreamGetVerbatim ==
    HandledItemGet =>
        /\ Len(h.ups) = 1
        /\ h.ups[1].method = "GET"
        /\ h.ups[1].url = UpstreamBase \o request.path

(***************************************************************************)
(* C3 (as claimed): a POST to /api/market/prices/bulk whose body, read up  *)
(* to the declared Content-Length, is valid JSON of any shape issues       *)
(* exactly one upstream POST to the bulk endpoint with a JSON-equivalent   *)
(* payload and Content-Type: application/json.                             *)
(***************************************************************************)
C3_AnyJsonIsForwarded ==
    (pc = "handled" /\ request.method = "POST" /\ request.path = BulkPath
        /\ ValidJsonRead(request)) =>
        /\ Len(h.ups) = 1
        /\ h.ups[1].method = "POST"
        /\ h.ups[1].url = BulkUrl
        /\ h.ups[1].headers = JsonContentType
        /\ json_loads(h.ups[1].data).ok
        /\ json_loads(h.ups[1].data).val = json_loads(BodyRead(request)).val

(***************************************************************************)
(* C4 (as claimed): when the upstream answers a bulk POST with HTTP error  *)
(* status c, the relay responds with status c and with the upstream's      *)
(* error body byte for byte when it is non-empty, else with the            *)
(* synthesized {"error": "API returned status c"}.  Stated for a client    *)
(* connection on which no write fails.                                     *)
(***************************************************************************)
C4_BulkErrorForwarded ==
    (HandledBulkPost /\ Len(h.ups) = 1 /\ Answer.kind = "httperror" /\ h.failed = 0) =>
        /\ StatusCodes(h.wire) = <<Answer.code>>
        /\ BodiesSent(h.wire) =
               <<IF Answer.hasfp /\ Answer.body # <<>>
                 THEN RawBody(Answer.body)
                 ELSE GenericError(Answer.code)>>

(***************************************************************************)
(* C5 (as claimed): when the upstream answers a GET item lookup with HTTP  *)
(* error status c, the relay responds with status c and the upstream's own *)
(* error body, the generic message only when the upstream supplied none.   *)
(***************************************************************************)
C5_ItemErrorBodyForwarded ==
    (HandledItemGet /\ Len(h.ups) = 1 /\ Answer.kind = "httperror" /\ h.failed = 0) =>
        /\ StatusCodes(h.wire) = <<Answer.code>>
        /\ BodiesSent(h.wire) =
               <<IF Answer.hasfp /\ Answer.body # <<>>
                 THEN RawBody(Answer.body)
                 ELSE GenericError(Answer.code)>>

(***************************************************************************)
(* C5 (amended): when the upstream answers a GET item lookup with HTTP     *)
(* error status c, the relay never reads the upstream's error body: every  *)
(* status line it sends is c, every body it sends is the generic           *)
(* {"error": "API returned status c"}, and when no write to the client     *)
(* fails it sends exactly one response, with status c, Content-Type        *)
(* application/json and that body.                                         *)
(***************************************************************************)
C5_ItemErrorIsGeneric ==
    (HandledItemGet /\ Len(h.ups) = 1 /\ Answer.kind = "httperror") =>
        /\ \A i \in 1..Len(h.wire) :
               /\ h.wire[i].k = "status" => h.wire[i].code = Answer.code
               /\ h.wire[i].k = "body" => h.wire[i] = GenericError(Answer.code)
               /\ h.wire[i].k = "end" =>
                      BlockHas(h.wire, i, HeaderLine("Content-Type", "application/json"))
        /\ h.failed = 0 =>
               /\ StatusCodes(h.wire) = <<Answer.code>>
               /\ BodiesSent(h.wire) = <<GenericError(Answer.code)>>

\* The upstream sent an error with a body of its own and the relay answered.
C5_Witness ==
    /\ HandledItemGet
    /\ Len(h.ups) = 1
    /\ Answer.kind = "httperror"
    /\ Answer.body = <<123, 125>>
    /\ h.failed = 0
    /\ BodiesSent(h.wire) = <<GenericError(Answer.code)>>

(***************************************************************************)
(* C6 (as claimed): on either relay route, any failure other than an       *)
(* upstream HTTP error, at any step, becomes an HTTP 500 response with the *)
(* body {"error": <exception text>}, and no failure escapes the handler    *)
(* without a response.  Stated for a client connection on which no write   *)
(* fails, so that the response can always be delivered.                    *)
(***************************************************************************)
C6_FailuresBecome500 ==
    ((HandledItemGet \/ HandledBulkPost) /\ h.failed = 0) =>
        /\ h.exc = NoExc
        /\ StatusCodes(h.wire) # <<>>
        /\ (h.ups = <<>> \/ (h.ups # <<>> /\ Answer.kind \in {"urlerror", "readfail"})) =>
               /\ StatusCodes(h.wire) = <<500>>
               /\ Len(BodiesSent(h.wire)) = 1
               /\ BodiesSent(h.wire)[1].value # ""

(***************************************************************************)
(* C7 (as claimed): a POST to any path other than /api/market/prices/bulk, *)
(* including paths that merely begin with it, is answered 405 with         *)
(* {"error": "Method not allowed"} and causes no upstream request.         *)
(***************************************************************************)
C7_OtherPostIs405 ==
    (pc = "handled" /\ request.method = "POST" /\ request.path # BulkPath) =>
        /\ h.ups = <<>>
        /\ h.failed = 0 =>
               /\ StatusCodes(h.wire) = <<405>>
               /\ BodiesSent(h.wire) = <<TextBody(json_error("Method not allowed"))>>

(***************************************************************************)
(* C8: no failure while handling a request stops the listener.  Only       *)
(* Ctrl+C ends it; after every handled request, whatever its outcome (an   *)
(* exception that escaped the handler included), the server is back in the *)
(* accepting state with nothing kept from the request; and what a handler  *)
(* produced is what a new handler produces from its request and the        *)
(* answers of its environment alone.                                       *)
(***************************************************************************)
FreshResponse ==
    \/ /\ request.method = "OPTIONS"
       /\ \E wf \in WriteFailures : h = do_OPTIONS(NewHandler, wf)
    \/ /\ request.method = "POST"
       /\ \E up \in UpOutcomesFor(request), wf \in WriteFailures :
              h = do_POST(NewHandler, request, up, wf)
    \/ /\ request.method = "GET"
       /\ \E up \in UpOutcomesFor(request), fs \in FsOutcomesFor(request),
              wf \in WriteFailures :
              h = do_GET(NewHandler, request, up, fs, wf)
    \/ /\ request.method \notin {"OPTIONS", "POST", "GET"}
       /\ \E wf \in WriteFailures : h = send_error(NewHandler, 501, wf)

C8_ListenerSurvives ==
    /\ [](~listening => interrupted)
    /\ [](pc = "handled" => FreshResponse)
    /\ [][pc = "handled" =>
             \/ interrupted'
             \/ /\ pc' = "accept"
                /\ listening'
                /\ request' = NoRequest
                /\ h' = NewHandler]_vars

\* An exception escaped a handler (raised inside its except clause) and the
\* listener is still up.
C8_Witness ==
    /\ pc = "handled"
    /\ h.exc # NoExc
    /\ h.ups # <<>>
    /\ listening

(***************************************************************************)
(* C9: an OPTIONS request to any path is answered with status 200, the     *)
(* three CORS headers and no body, and causes no upstream request.         *)
(***************************************************************************)
C9_Preflight ==
    (pc = "handled" /\ request.method = "OPTIONS") =>
        /\ h.ups = <<>>
        /\ BodiesSent(h.wire) = <<>>
        /\ \A i \in 1..Len(h.wire) : h.wire[i].k = "status" => h.wire[i].code = 200
        /\ h.failed = 0 =>
               /\ StatusCodes(h.wire) = <<200>>
               /\ h.wire[Len(h.wire)].k = "end"
               /\ \A n \in 1..Len(CORSHeaders) :
                      BlockHas(h.wire, Len(h.wire), CORSHeaders[n])

\* A preflight to the bulk relay path has been answered.
C9_Witness ==
    /\ pc = "handled"
    /\ request.method = "OPTIONS"
    /\ request.path = BulkPath
    /\ h.failed = 0
    /\ StatusCodes(h.wire) = <<200>>

(***************************************************************************)
(* C10 (as claimed): for a request on a relay route the handler emits at   *)
(* most one response (one status line, one header block), and only after   *)
(* the upstream call; a failure after the status line and headers were     *)
(* sent does not put a second status line on the connection.               *)
(***************************************************************************)
C10_AtMostOneResponse ==
    (HandledItemGet \/ HandledBulkPost) =>
        /\ Len(StatusCodes(h.wire)) <= 1
        /\ \A i \in 1..Len(h.ups) : h.ups[i].at = 0

=============================================================================
